---- MODULE Spec2Model ----
(***************************************************************************)
(* Model of src/main.rs: the strum-event generator                         *)
(* generate_chord_track_events, its checked subtraction safe_sub_u28, the  *)
(* two event constructors and the part of main that consumes the result.   *)
(*                                                                         *)
(* A call of generate_chord_track_events is a frame: a record holding the  *)
(* arguments, the locals and the program position.  `gen` is the call made *)
(* by main; `twin` is a second, independent call with the same scalar      *)
(* arguments and a chord sequence that agrees with gen's on root and       *)
(* intervals[0], stepped side by side with gen.                            *)
(*                                                                         *)
(* Numbers keep their width: u28 values live in 0..2^28-1 and u28 sums are *)
(* reduced to 28 bits; u7::from(u8) is midly's lossy conversion, which     *)
(* keeps the low 7 bits; the u8 sum chord.root + chord.intervals[0] panics *)
(* in a build with overflow checks and wraps modulo 256 in one without     *)
(* (overflow_checks, fixed for a run).  stderr holds the diagnostics of    *)
(* safe_sub_u28 only; the DEBUG trace lines change no state and are left   *)
(* out.  main's arguments are drawn from the input pools below.            *)
(***************************************************************************)
EXTENDS Integers, Sequences, FiniteSets

VARIABLES gen, twin, overflow_checks, mainpc, track, file

vars == <<gen, twin, overflow_checks, mainpc, track, file>>

(***************************************************************************)
(* Bounds and input pools.                                                 *)
(***************************************************************************)
MaxChords == 2

U28Modulus == 268435456
U7Modulus == 128
U8Modulus == 256
NoteDuration == 40
NoteOffVelocity == 64

\* Chords the callers are given: the three demo chords' shape, a chord whose
\* pitch exceeds 7 bits, one whose pitch exceeds 8 bits, one with no interval.
ChordPool ==
    { [root |-> 60,  intervals |-> <<0, 4, 7>>],
      [root |-> 67,  intervals |-> <<0, 4, 7>>],
      [root |-> 100, intervals |-> <<40, 3>>],
      [root |-> 200, intervals |-> <<100>>],
      [root |-> 60,  intervals |-> <<>>] }

StartTicks == {0, 480, U28Modulus - 21, U28Modulus - 501}
MeasureTicks == {100, 400, 1920}
Channels == {0, 9}
Velocities == {64, 200}

RECURSIVE SeqsUpTo(_, _)
SeqsUpTo(S, n) ==
    IF n = 0 THEN { <<>> }
    ELSE LET shorter == SeqsUpTo(S, n - 1)
         IN  shorter \cup { Append(s, x) : s \in { t \in shorter : Len(t) = n - 1 }, x \in S }

ChordSeqs == SeqsUpTo(ChordPool, MaxChords)

\* A chord sequence that agrees with chs on root and intervals[0] of every
\* chord: the same one, one with intervals[1..] dropped, one with them replaced.
Variants == {"same", "first_only", "other_rest"}

VariantOf(chs, v) ==
    [ i \in 1..Len(chs) |->
        IF v = "same" \/ Len(chs[i].intervals) = 0 THEN chs[i]
        ELSE IF v = "first_only"
             THEN [chs[i] EXCEPT !.intervals = << chs[i].intervals[1] >>]
             ELSE [chs[i] EXCEPT !.intervals = << chs[i].intervals[1], 3, 10, 14 >>] ]

(***************************************************************************)
(* midly's restricted integers and the helpers of main.rs.                 *)
(***************************************************************************)
U28Add(a, b) == (a + b) % U28Modulus

U28Sub(a, b) == (a - b) % U28Modulus

U7From(x) == x % U7Modulus

U8Wrap(x) == x % U8Modulus

\* variant: the last strum offset a beat late
patternLateLast == <<0, 120, 240, 480>>

pattern == <<0, 120, 240, 360>>

\* variant: the guard removed
SafeSubNeverFails(a, b) == FALSE

\* variant: the guard off by one, b >= a
SafeSubFailsOnEqual(a, b) == b >= a

\* safe_sub_u28: the guard of line 12
SafeSubFails(a, b) == b > a

safe_sub_u28(a, b) == U28Sub(a, b)

Diagnostic(context, a, b) == [context |-> context, a |-> a, b |-> b]

note_on_event(delta, channel, note, velocity) ==
    [delta |-> delta, kind |-> "NoteOn", channel |-> channel, key |-> note, vel |-> velocity]

note_off_event(delta, channel, note, velocity) ==
    [delta |-> delta, kind |-> "NoteOff", channel |-> channel, key |-> note, vel |-> velocity]

EndOfTrack == [delta |-> 0, kind |-> "EndOfTrack"]

(***************************************************************************)
(* generate_chord_track_events, one step per program position.             *)
(***************************************************************************)
\* variant: last_abs_time starts at tick 0 instead of start_tick
FrameLastFromZero(chs, st, tpm, ch, vel) ==
    [ chords |-> chs, start_tick |-> st, ticks_per_measure |-> tpm,
      channel |-> ch, base_velocity |-> vel,
      events |-> <<>>, abs_of |-> <<>>,
      abs_time |-> st, last_abs_time |-> 0,
      ch_idx |-> 0, off_idx |-> 0,
      pc |-> "for_chord", stderr |-> <<>>, panic |-> "none" ]

Frame(chs, st, tpm, ch, vel) ==
    [ chords |-> chs, start_tick |-> st, ticks_per_measure |-> tpm,
      channel |-> ch, base_velocity |-> vel,
      events |-> <<>>, abs_of |-> <<>>,
      abs_time |-> st, last_abs_time |-> st,
      ch_idx |-> 0, off_idx |-> 0,
      pc |-> "for_chord", stderr |-> <<>>, panic |-> "none" ]

CurChord(f) == f.chords[f.ch_idx + 1]

NoteOnAbs(f) == U28Add(f.abs_time, pattern[f.off_idx + 1])

NoteOffAbs(f) == U28Add(NoteOnAbs(f), NoteDuration)

\* variant: the last interval of the chord instead of the first
MidiNoteLastInterval(chord) == U8Wrap(chord.root + chord.intervals[Len(chord.intervals)])

\* chord.root + chord.intervals[0] on u8 (line 105), when it does not panic
MidiNote(chord) == U8Wrap(chord.root + chord.intervals[1])

PitchOverflows(chord) == chord.root + chord.intervals[1] >= U8Modulus

PanicWith(f, what) == [f EXCEPT !.pc = "panicked", !.panic = what]

\* variant: the iteration stops one chord early
ForChordSkipsLast(f) ==
    IF f.ch_idx + 1 < Len(f.chords)
    THEN [f EXCEPT !.pc = "note_on", !.off_idx = 0]
    ELSE [f EXCEPT !.pc = "returned"]

\* line 91: the next chord of the iteration, or the return of line 132
ForChordStep(f) ==
    IF f.ch_idx < Len(f.chords)
    THEN [f EXCEPT !.pc = "note_on", !.off_idx = 0]
    ELSE [f EXCEPT !.pc = "returned"]

\* lines 97-115
NoteOnStep(f) ==
    IF Len(CurChord(f).intervals) = 0 THEN PanicWith(f, "index out of bounds")
    ELSE IF overflow_checks /\ PitchOverflows(CurChord(f))
    THEN PanicWith(f, "attempt to add with overflow")
    ELSE IF SafeSubFails(NoteOnAbs(f), f.last_abs_time)
    THEN [f EXCEPT !.pc = "underflow",
                   !.stderr = Append(@, Diagnostic("chord note_on delta",
                                                   NoteOnAbs(f), f.last_abs_time))]
    ELSE [f EXCEPT !.events = Append(@, note_on_event(
                                   safe_sub_u28(NoteOnAbs(f), f.last_abs_time),
                                   f.channel,
                                   U7From(MidiNote(CurChord(f))),
                                   U7From(f.base_velocity))),
                   !.abs_of = Append(@, NoteOnAbs(f)),
                   !.last_abs_time = NoteOnAbs(f),
                   !.pc = "note_off"]

\* lines 117-126
NoteOffStep(f) ==
    IF SafeSubFails(NoteOffAbs(f), f.last_abs_time)
    THEN [f EXCEPT !.pc = "underflow",
                   !.stderr = Append(@, Diagnostic("chord note_off delta",
                                                   NoteOffAbs(f), f.last_abs_time))]
    ELSE [f EXCEPT !.events = Append(@, note_off_event(
                                   safe_sub_u28(NoteOffAbs(f), f.last_abs_time),
                                   f.channel,
                                   U7From(MidiNote(CurChord(f))),
                                   U7From(NoteOffVelocity))),
                   !.abs_of = Append(@, NoteOffAbs(f)),
                   !.last_abs_time = NoteOffAbs(f),
                   !.off_idx = IF f.off_idx + 1 < Len(pattern) THEN f.off_idx + 1 ELSE @,
                   !.pc = IF f.off_idx + 1 < Len(pattern) THEN "note_on" ELSE "next_measure"]

\* variant: the next chord starts a measure after the last event
NextMeasureFromLast(f) ==
    [f EXCEPT !.abs_time = U28Add(f.last_abs_time, f.ticks_per_measure),
              !.ch_idx = f.ch_idx + 1,
              !.pc = "for_chord"]

\* line 129
NextMeasureStep(f) ==
    [f EXCEPT !.abs_time = U28Add(f.abs_time, f.ticks_per_measure),
              !.ch_idx = f.ch_idx + 1,
              !.pc = "for_chord"]

\* variant: the violation ends the call with the events appended so far
PanicReturnsPartial(f) == [f EXCEPT !.pc = "returned"]

\* line 15
PanicStep(f) ==
    PanicWith(f, "attempting to subtract with overflow in " \o f.stderr[Len(f.stderr)].context)

Step(f) ==
    CASE f.pc = "for_chord"    -> ForChordStep(f)
      [] f.pc = "note_on"      -> NoteOnStep(f)
      [] f.pc = "note_off"     -> NoteOffStep(f)
      [] f.pc = "next_measure" -> NextMeasureStep(f)
      [] f.pc = "underflow"    -> PanicStep(f)
      [] OTHER                 -> f

(***************************************************************************)
(* The state machine.                                                      *)
(***************************************************************************)
Init ==
    /\ \E chs \in ChordSeqs, st \in StartTicks, tpm \in MeasureTicks,
          ch \in Channels, vel \in Velocities, v \in Variants :
          /\ gen = Frame(chs, st, tpm, ch, vel)
          /\ twin = Frame(VariantOf(chs, v), st, tpm, ch, vel)
    /\ overflow_checks \in BOOLEAN
    /\ mainpc = "call"
    /\ track = <<>>
    /\ file = "absent"

\* A panic in the generator unwinds through main.
Run(next) ==
    /\ gen' = next
    /\ twin' = Step(twin)
    /\ mainpc' = IF next.pc = "panicked" THEN "aborted" ELSE mainpc
    /\ UNCHANGED <<overflow_checks, track, file>>

ForChord == gen.pc = "for_chord" /\ Run(ForChordStep(gen))

NoteOn == gen.pc = "note_on" /\ Run(NoteOnStep(gen))

NoteOff == gen.pc = "note_off" /\ Run(NoteOffStep(gen))

NextMeasure == gen.pc = "next_measure" /\ Run(NextMeasureStep(gen))

Panic == gen.pc = "underflow" /\ Run(PanicStep(gen))

\* main, lines 161-167: the track takes the events, then the end-of-track marker
MainExtend ==
    /\ mainpc = "call"
    /\ gen.pc = "returned"
    /\ track' = Append(track \o gen.events, EndOfTrack)
    /\ mainpc' = "save"
    /\ UNCHANGED <<gen, twin, overflow_checks, file>>

\* main, lines 170-178: smf.save either writes the file or returns the I/O error
MainSave ==
    /\ mainpc = "save"
    /\ \E ok \in BOOLEAN :
          /\ file' = IF ok THEN "written" ELSE "io_error"
          /\ mainpc' = IF ok THEN "exit_ok" ELSE "exit_err"
    /\ UNCHANGED <<gen, twin, overflow_checks, track>>

Next ==
    \/ ForChord
    \/ NoteOn
    \/ NoteOff
    \/ NextMeasure
    \/ Panic
    \/ MainExtend
    \/ MainSave

Spec == Init /\ [][Next]_vars

(***************************************************************************)
(* Vocabulary of the properties.                                           *)
(***************************************************************************)
Terminal(f) == f.pc \in {"returned", "panicked"}

\* the run met the ordering violation of safe_sub_u28
OrderingViolation(f) == f.stderr # <<>>

\* chord.root + chord.intervals[0] is computed without a panic
PitchComputes(chord) ==
    /\ Len(chord.intervals) > 0
    /\ overflow_checks => chord.root + chord.intervals[1] < U8Modulus

\* the chord and the strum offset event k (counted from 0) belongs to
ChordOf(f, k) == f.chords[(k \div 8) + 1]

OffsetOf(k) == pattern[((k % 8) \div 2) + 1]

IsNoteOnIndex(k) == k % 2 = 0

\* the tick of event k on the unbounded integers
TickOf(f, k) ==
    f.start_tick + (k \div 8) * f.ticks_per_measure + OffsetOf(k)
        + (IF IsNoteOnIndex(k) THEN 0 ELSE 40)

RECURSIVE SumDelta(_, _)
SumDelta(evs, n) == IF n = 0 THEN 0 ELSE SumDelta(evs, n - 1) + evs[n].delta

\* the absolute time the delta computation at f's position compares
ComputedAbs(f) == IF f.pc = "note_on" THEN NoteOnAbs(f) ELSE NoteOffAbs(f)

(***************************************************************************)
(* C1: last_abs_time never decreases from one assignment to the next;      *)
(* every appended event has a delta >= 0 that is the exact difference of   *)
(* the two absolute times, never a wrapped one; and a delta computation    *)
(* whose last_abs_time exceeds the computed absolute time takes the fatal  *)
(* path without appending an event.                                        *)
(***************************************************************************)
C1_Step ==
    /\ gen'.last_abs_time >= gen.last_abs_time
    /\ Len(gen'.events) >= Len(gen.events)
    /\ Len(gen'.events) > Len(gen.events) =>
          /\ Len(gen'.events) = Len(gen.events) + 1
          /\ gen'.events[Len(gen'.events)].delta >= 0
          /\ gen'.events[Len(gen'.events)].delta
                = gen'.last_abs_time - gen.last_abs_time
    /\ ( /\ gen.pc \in {"note_on", "note_off"}
         /\ gen.last_abs_time > ComputedAbs(gen)
         /\ gen'.pc # "panicked" ) =>
          /\ gen'.pc = "underflow"
          /\ gen'.events = gen.events
    /\ gen.pc = "underflow" => gen'.pc = "panicked" /\ gen'.events = gen.events

C1_NonNegativeDelta == [][C1_Step]_vars

C1_Witness ==
    /\ gen.pc = "panicked"
    /\ OrderingViolation(gen)
    /\ Len(gen.events) >= 8
    /\ gen.events[3].delta > 0

(***************************************************************************)
(* C2 as stated: a run on a non-empty chord sequence that meets no         *)
(* ordering violation returns exactly 8 x len(chords) events.              *)
(***************************************************************************)
C2_CountUnlessOrderingViolation ==
    ( /\ Terminal(gen)
      /\ Len(gen.chords) > 0
      /\ ~OrderingViolation(gen) ) =>
        /\ gen.pc = "returned"
        /\ Len(gen.events) = 8 * Len(gen.chords)

(***************************************************************************)
(* C2 amended: a run that meets no ordering violation and whose chords'    *)
(* pitches all compute (intervals non-empty, and root + intervals[0] at    *)
(* most 255 in a build with overflow checks) returns; every run that       *)
(* returns yields exactly 8 x len(chords) events, non-empty for a          *)
(* non-empty sequence; the length after finishing chord i is 8 x (i+1).    *)
(***************************************************************************)
C2_Count ==
    /\ ( /\ Terminal(gen)
         /\ ~OrderingViolation(gen)
         /\ \A i \in 1..Len(gen.chords) : PitchComputes(gen.chords[i]) ) =>
           gen.pc = "returned"
    /\ gen.pc = "returned" =>
          /\ Len(gen.events) = 8 * Len(gen.chords)
          /\ Len(gen.chords) > 0 => gen.events # <<>>
    /\ gen.pc = "next_measure" => Len(gen.events) = 8 * (gen.ch_idx + 1)

C2_Witness ==
    /\ gen.pc = "returned"
    /\ Len(gen.chords) = 2
    /\ Len(gen.events) = 16

(***************************************************************************)
(* C3 as stated: the sum of the deltas of events 0..k is the absolute tick *)
(* of event k, for every start_tick.                                       *)
(***************************************************************************)
C3_SumIsAbsolute ==
    \A n \in 1..Len(gen.events) : SumDelta(gen.events, n) = gen.abs_of[n]

(***************************************************************************)
(* C3 amended: the sum of the deltas of events 0..k is the absolute tick   *)
(* of event k minus start_tick, the absolute tick being                    *)
(* start_tick + i * ticks_per_measure + offset (+ 40 for a Note-Off).      *)
(***************************************************************************)
C3_SumIsRelative ==
    \A n \in 1..Len(gen.events) :
        /\ gen.abs_of[n] = TickOf(gen, n - 1)
        /\ SumDelta(gen.events, n) = gen.abs_of[n] - gen.start_tick

C3_Witness ==
    /\ gen.start_tick = 480
    /\ gen.pc = "returned"
    /\ Len(gen.events) = 16
    /\ SumDelta(gen.events, 16) = 1920 + 400

(***************************************************************************)
(* C4 as stated: with at least 2 chords and ticks_per_measure < 400 the    *)
(* run fails with the ordering violation at the Note-On of the second      *)
(* chord's first strum offset, after exactly the first chord's 8 events.   *)
(***************************************************************************)
C4_FailsAtSecondChord(f) ==
    /\ f.pc # "returned"
    /\ f.ch_idx <= 1
    /\ f.ch_idx = 1 =>
          /\ f.pc \in {"for_chord", "note_on", "underflow", "panicked"}
          /\ f.pc # "for_chord" => f.off_idx = 0
    /\ f.pc \in {"underflow", "panicked"} =>
          /\ f.ch_idx = 1
          /\ Len(f.events) = 8
          /\ Len(f.stderr) = 1
          /\ f.stderr[1].context = "chord note_on delta"

C4_ShortMeasureFails ==
    (Len(gen.chords) >= 2 /\ gen.ticks_per_measure < 400) => C4_FailsAtSecondChord(gen)

(***************************************************************************)
(* C4 amended: the same, provided nothing fails earlier: the first chord's *)
(* ticks fit the 28 bits (start_tick + 400 < 2^28) and the pitch of the    *)
(* first two chords computes without a panic.                              *)
(***************************************************************************)
C4_ShortMeasureFailsInRange ==
    ( /\ Len(gen.chords) >= 2
      /\ gen.ticks_per_measure < 400
      /\ gen.start_tick + 400 < U28Modulus
      /\ PitchComputes(gen.chords[1])
      /\ PitchComputes(gen.chords[2]) ) => C4_FailsAtSecondChord(gen)

C4_Witness ==
    /\ Len(gen.chords) >= 2
    /\ gen.ticks_per_measure = 100
    /\ gen.pc = "panicked"
    /\ gen.ch_idx = 1
    /\ Len(gen.events) = 8
    /\ gen.stderr = << Diagnostic("chord note_on delta", 100, 400) >>

(***************************************************************************)
(* C5: events at even indices are Note-On and at odd indices Note-Off; a   *)
(* pair carries the note chord.root + chord.intervals[0] and the channel   *)
(* argument; Note-On velocity is base_velocity, Note-Off velocity is 64.   *)
(***************************************************************************)
C5_Pairing ==
    \A n \in 1..Len(gen.events) :
        LET e == gen.events[n]
            c == ChordOf(gen, n - 1)
        IN  /\ e.kind = (IF IsNoteOnIndex(n - 1) THEN "NoteOn" ELSE "NoteOff")
            /\ e.channel = gen.channel
            /\ e.key = c.root + c.intervals[1]
            /\ e.vel = (IF IsNoteOnIndex(n - 1) THEN gen.base_velocity ELSE 64)

(***************************************************************************)
(* C6: no event is appended for a pitch or a velocity outside 7 bits: an   *)
(* out-of-range value is an error, never a masked or wrapped value.        *)
(***************************************************************************)
C6_NoSilentTruncation ==
    \A n \in 1..Len(gen.events) :
        /\ ChordOf(gen, n - 1).root + ChordOf(gen, n - 1).intervals[1] < 128
        /\ gen.events[n].kind = "NoteOn" => gen.base_velocity < 128

(***************************************************************************)
(* C7: an ordering violation first emits the diagnostic (label and the two *)
(* operands), then the run halts: no further event, no returned sequence,  *)
(* the track is never extended and the save is never reached; the save is  *)
(* reached only after generation returned its complete sequence.           *)
(***************************************************************************)
C7_State ==
    /\ OrderingViolation(gen) =>
          /\ gen.pc \in {"underflow", "panicked"}
          /\ Len(gen.stderr) = 1
          /\ gen.stderr[1].context \in {"chord note_on delta", "chord note_off delta"}
          /\ gen.stderr[1].b = gen.last_abs_time
          /\ gen.stderr[1].a < gen.stderr[1].b
          /\ gen.stderr[1].a =
                (IF gen.stderr[1].context = "chord note_on delta"
                 THEN NoteOnAbs(gen) ELSE NoteOffAbs(gen))
          /\ track = <<>>
          /\ file = "absent"
          /\ mainpc \in {"call", "aborted"}
    /\ gen.pc = "panicked" => mainpc = "aborted"
    /\ (gen.pc = "panicked" /\ gen.panic \notin {"index out of bounds",
                                                 "attempt to add with overflow"}) =>
          OrderingViolation(gen)
    /\ (mainpc \in {"save", "exit_ok", "exit_err"} \/ file # "absent" \/ track # <<>>) =>
          /\ gen.pc = "returned"
          /\ ~OrderingViolation(gen)
          /\ Len(gen.events) = 8 * Len(gen.chords)
          /\ track = Append(gen.events, EndOfTrack)

C7_Step ==
    OrderingViolation(gen) =>
        /\ gen'.events = gen.events
        /\ gen'.stderr = gen.stderr
        /\ gen'.pc = "panicked"
        /\ track' = track
        /\ file' = file

C7_FailFast == [](C7_State) /\ [][C7_Step]_vars

C7_Witness ==
    /\ gen.pc = "panicked"
    /\ mainpc = "aborted"
    /\ gen.stderr = << Diagnostic("chord note_off delta", 19, U28Modulus - 21) >>

(***************************************************************************)
(* C8: the first event has delta 0; every Note-Off has delta 40; the       *)
(* Note-On of offsets 120, 240, 360 has delta 80; the first Note-On of a   *)
(* chord with index >= 1 has delta ticks_per_measure - 400; and the        *)
(* concrete one-chord scenario yields the three documented events.         *)
(***************************************************************************)
C8_Deltas ==
    /\ \A n \in 1..Len(gen.events) :
          gen.events[n].delta =
              (IF n = 1 THEN 0
               ELSE IF ~IsNoteOnIndex(n - 1) THEN 40
               ELSE IF (n - 1) % 8 # 0 THEN 80
               ELSE gen.ticks_per_measure - 400)
    /\ ( /\ gen.chords = << [root |-> 60, intervals |-> <<0, 4, 7>>] >>
         /\ gen.start_tick = 0
         /\ gen.ticks_per_measure = 1920
         /\ gen.channel = 0
         /\ gen.base_velocity = 64
         /\ Len(gen.events) >= 3 ) =>
          /\ gen.events[1] = [delta |-> 0, kind |-> "NoteOn", channel |-> 0,
                              key |-> 60, vel |-> 64]
          /\ gen.events[2] = [delta |-> 40, kind |-> "NoteOff", channel |-> 0,
                              key |-> 60, vel |-> 64]
          /\ gen.events[3] = [delta |-> 80, kind |-> "NoteOn", channel |-> 0,
                              key |-> 60, vel |-> 64]

C8_Witness ==
    /\ gen.pc = "returned"
    /\ Len(gen.chords) = 2
    /\ gen.start_tick = 480
    /\ gen.ticks_per_measure = 1920
    /\ gen.events[9].delta = 1520

(***************************************************************************)
(* C9: two runs with equal scalar arguments whose chords agree on root and *)
(* intervals[0] stay equal: same events, or the same failure at the same   *)
(* point, whatever intervals[1..] hold; so do two runs on identical input. *)
(***************************************************************************)
C9_DependsOnFirstInterval ==
    /\ twin.pc = gen.pc
    /\ twin.events = gen.events
    /\ twin.stderr = gen.stderr
    /\ twin.panic = gen.panic
    /\ twin.ch_idx = gen.ch_idx
    /\ twin.off_idx = gen.off_idx

C9_Witness ==
    /\ twin.chords # gen.chords
    /\ Len(twin.chords[1].intervals) # Len(gen.chords[1].intervals)
    /\ gen.pc = "returned"
    /\ Len(gen.events) = 16

(***************************************************************************)
(* C10: while the tick values fit the 28 bits, the checked subtraction     *)
(* fails only at the Note-On of the first strum offset of a chord with     *)
(* index >= 1, and never when ticks_per_measure >= 400.                    *)
(***************************************************************************)
\* the ticks computed up to f's position fit the 28 bits
TicksInRange(f) ==
    f.start_tick + f.ch_idx * f.ticks_per_measure + pattern[f.off_idx + 1] + 40 < U28Modulus

C10_OnlyFirstNoteOnFails ==
    TicksInRange(gen) =>
        /\ OrderingViolation(gen) =>
              /\ gen.stderr[1].context = "chord note_on delta"
              /\ gen.ch_idx >= 1
              /\ gen.off_idx = 0
        /\ gen.ticks_per_measure >= 400 => ~OrderingViolation(gen)

C10_Witness ==
    /\ gen.ticks_per_measure = 400
    /\ Len(gen.chords) = 2
    /\ gen.pc = "returned"
    /\ gen.events[9].delta = 0

====
